---- MODULE Spec2Model ----
(***************************************************************************)
(* Model of glademiller/rust-jws: the Header / Claims field model, the     *)
(* compact three-segment codec (JWS::encode / JWS::decode) and the         *)
(* algorithm dispatch of signing and verification.                         *)
(*                                                                         *)
(* Strings on the wire are sequences of atoms: the '.' character, or a     *)
(* run of base64url characters that encodes some bytes, or a character     *)
(* outside the base64url alphabet.  Bytes are tagged records: JSON text,   *)
(* other UTF-8 text, non UTF-8 bytes, the bytes of a wire string, and the  *)
(* outputs of the cryptographic primitives, which are modelled as ideal    *)
(* (collision free) functions of their inputs.                             *)
(***************************************************************************)
EXTENDS Integers, Sequences, FiniteSets, TLC

VARIABLES
  header,   \* the Header under construction
  claims,   \* the Claims under construction
  ops,      \* number of field-model calls made so far
  last,     \* the last field-model call: its arguments, the values before it, its result
  jws,      \* the Token handed to encode
  encoded,  \* the encode call made: key, algorithm, outcome
  wire,     \* the compact string in flight
  tamper,   \* what was done to the string in flight
  decoded   \* the decode call made: input, key, algorithm, flag, outcome

vars == <<header, claims, ops, last, jws, encoded, wire, tamper, decoded>>

(* bounds *)
MaxOps == 2      \* field-model calls in one run
MaxFields == 1   \* optional and extension fields populated in an input Token

---------------------------------------------------------------------------
(* Option<T> *)
None == [some |-> FALSE]
Some(x) == [some |-> TRUE, v |-> x]

(* serde_json::Value: strings, unsigned numbers (as numerals), objects *)
Str(s) == [t |-> "str", v |-> s]
Num(n) == [t |-> "num", v |-> n]
Obj(o) == [t |-> "obj", v |-> o]

(* std Result *)
Ok(x) == [ok |-> TRUE, val |-> x]
Err(e) == [ok |-> FALSE, err |-> e]

(* BTreeMap<String, Value>: a function from the keys present to values;    *)
(* KeyOrder is the ascending byte order in which a BTreeMap iterates.      *)
KeyOrder == <<"ISS", "RAT", "alg", "aud", "exp", "iat", "iss", "jku", "jti",
              "kid", "nbf", "sub", "typ", "x5t", "x5u">>
EmptyMap == [n \in {} |-> Str("")]
Insert(m, key, value) == [n \in (DOMAIN m) \cup {key} |-> IF n = key THEN value ELSE m[n]]
Contains(arr, key) == \E i \in 1..Len(arr) : arr[i] = key

(* a JSON text is the ordered list of the members of one object *)
Member(n, val) == [n |-> n, v |-> val]

---------------------------------------------------------------------------
(* jws_header.rs *)
ALGORITHM == {"HS256", "HS384", "HS512", "RS256", "RS384", "RS512",
              "ES256", "ES384", "ES512"}

ALGORITHM_serialize(a) ==
  CASE a = "HS256" -> Str("HS256")
    [] a = "HS384" -> Str("HS384")
    [] a = "HS512" -> Str("HS512")
    [] a = "RS256" -> Str("RS256")
    [] a = "RS384" -> Str("RS384")
    [] a = "RS512" -> Str("RS512")
    [] a = "ES256" -> Str("ES256")
    [] a = "ES384" -> Str("ES384")
    [] a = "ES512" -> Str("ES512")

(* deserialize_str with a visitor that only has visit_str: a value that is *)
(* not a string is an error; a string that names no algorithm is HS256.    *)
ALGORITHM_deserialize(val) ==
  IF val.t # "str" THEN Err("invalid_type")
  ELSE CASE val.v = "HS256" -> Ok("HS256")
         [] val.v = "HS384" -> Ok("HS384")
         [] val.v = "HS512" -> Ok("HS512")
         [] val.v = "RS256" -> Ok("RS256")
         [] val.v = "RS384" -> Ok("RS384")
         [] val.v = "RS512" -> Ok("RS512")
         [] val.v = "ES256" -> Ok("ES256")
         [] val.v = "ES384" -> Ok("ES384")
         [] val.v = "ES512" -> Ok("ES512")
         [] OTHER -> Ok("HS256")

RESERVED_HEADERS == <<"typ", "alg", "jku", "kid", "x5u", "x5t">>

Header_new ==
  [alg |-> "HS256", typ |-> None, jku |-> None, kid |-> None,
   x5u |-> None, x5t |-> None, values |-> EmptyMap]

Header_set(h, key, value) ==
  IF ~Contains(RESERVED_HEADERS, key)
  THEN [h EXCEPT !.values = Insert(h.values, key, value)]
  ELSE h

(* from_value(v).ok() for T = String ("str") or u64 ("num") *)
from_value(val, T) == IF val.t = T THEN Some(val.v) ELSE None

Header_get(h, key, T) ==
  IF key \in DOMAIN h.values THEN from_value(h.values[key], T) ELSE None

OptMember(n, opt) == IF opt.some THEN <<Member(n, Str(opt.v))>> ELSE <<>>

(* the filter of the extension loop inverted *)
ExtMembersInverted(m, reserved) ==
  LET keys == SelectSeq(KeyOrder, LAMBDA n : n \in DOMAIN m /\ Contains(reserved, n))
  IN [i \in 1..Len(keys) |-> Member(keys[i], m[keys[i]])]
ExtMembers(m, reserved) ==
  LET keys == SelectSeq(KeyOrder, LAMBDA n : n \in DOMAIN m /\ ~Contains(reserved, n))
  IN [i \in 1..Len(keys) |-> Member(keys[i], m[keys[i]])]

Header_serialize(h) ==
  <<Member("alg", ALGORITHM_serialize(h.alg))>>
    \o OptMember("typ", h.typ)
    \o OptMember("jku", h.jku)
    \o OptMember("kid", h.kid)
    \o OptMember("x5u", h.x5u)
    \o OptMember("x5t", h.x5t)
    \o ExtMembers(h.values, RESERVED_HEADERS)

(* visit_value() into a String slot *)
StringValue(val) == IF val.t = "str" THEN Ok(val.v) ELSE Err("invalid_type")
(* visit_value() into a u64 slot *)
U64Value(val) == IF val.t = "num" THEN Ok(val.v) ELSE Err("invalid_type")

RECURSIVE HeaderVisitKeys(_, _, _)
HeaderVisitKeys(ms, i, acc) ==
  IF i > Len(ms) THEN Ok(acc)
  ELSE LET key == ms[i].n
           val == ms[i].v
       IN IF key = "alg"
          THEN LET a == ALGORITHM_deserialize(val)
               IN IF a.ok THEN HeaderVisitKeys(ms, i + 1, [acc EXCEPT !.alg = Some(a.val)])
                  ELSE a
          ELSE IF key \in {"typ", "jku", "kid", "x5u", "x5t"}
          THEN LET s == StringValue(val)
               IN IF s.ok THEN HeaderVisitKeys(ms, i + 1, [acc EXCEPT ![key] = Some(s.val)])
                  ELSE s
          ELSE HeaderVisitKeys(ms, i + 1, [acc EXCEPT !.values = Insert(acc.values, key, val)])

HeaderVisitor_visit_map(ms) ==
  LET r == HeaderVisitKeys(ms, 1, [alg |-> None, typ |-> None, jku |-> None, kid |-> None,
                                   x5u |-> None, x5t |-> None, values |-> EmptyMap])
  IN IF ~r.ok THEN r
     ELSE IF ~r.val.alg.some THEN Err("missing_field")
     ELSE Ok([r.val EXCEPT !.alg = r.val.alg.v])

---------------------------------------------------------------------------
(* claims.rs *)
RESERVED_CLAIMS == <<"iss", "sub", "aud", "exp", "nbf", "iat", "jti">>

Claims_new ==
  [iss |-> None, sub |-> None, aud |-> None, exp |-> None, nbf |-> None,
   iat |-> None, jti |-> None, claims |-> EmptyMap]

(* set without the reserved-name test *)
Claims_set_unchecked(c, key, value) == [c EXCEPT !.claims = Insert(c.claims, key, value)]
Claims_set(c, key, value) ==
  IF ~Contains(RESERVED_CLAIMS, key)
  THEN [c EXCEPT !.claims = Insert(c.claims, key, value)]
  ELSE c

Claims_get(c, key, T) ==
  IF key \in DOMAIN c.claims THEN from_value(c.claims[key], T) ELSE None

(* exp, nbf and iat written as JSON strings *)
OptNumMemberQuoted(n, opt) == IF opt.some THEN <<Member(n, Str(opt.v))>> ELSE <<>>
OptNumMember(n, opt) == IF opt.some THEN <<Member(n, Num(opt.v))>> ELSE <<>>

(* the extension fields written before the registered ones *)
Claims_serialize_extensions_first(c) ==
  ExtMembers(c.claims, RESERVED_CLAIMS)
    \o OptMember("iss", c.iss)
    \o OptMember("sub", c.sub)
    \o OptMember("aud", c.aud)
    \o OptNumMember("exp", c.exp)
    \o OptNumMember("nbf", c.nbf)
    \o OptNumMember("iat", c.iat)
    \o OptMember("jti", c.jti)
Claims_serialize(c) ==
  OptMember("iss", c.iss)
    \o OptMember("sub", c.sub)
    \o OptMember("aud", c.aud)
    \o OptNumMember("exp", c.exp)
    \o OptNumMember("nbf", c.nbf)
    \o OptNumMember("iat", c.iat)
    \o OptMember("jti", c.jti)
    \o ExtMembers(c.claims, RESERVED_CLAIMS)

RECURSIVE ClaimsVisitKeys(_, _, _)
ClaimsVisitKeys(ms, i, acc) ==
  IF i > Len(ms) THEN Ok(acc)
  ELSE LET key == ms[i].n
           val == ms[i].v
       IN IF key \in {"iss", "sub", "aud", "jti"}
          THEN LET s == StringValue(val)
               IN IF s.ok THEN ClaimsVisitKeys(ms, i + 1, [acc EXCEPT ![key] = Some(s.val)])
                  ELSE s
          ELSE IF key \in {"exp", "nbf", "iat"}
          THEN LET u == U64Value(val)
               IN IF u.ok THEN ClaimsVisitKeys(ms, i + 1, [acc EXCEPT ![key] = Some(u.val)])
                  ELSE u
          ELSE ClaimsVisitKeys(ms, i + 1, [acc EXCEPT !.claims = Insert(acc.claims, key, val)])

ClaimsVisitor_visit_map(ms) == ClaimsVisitKeys(ms, 1, Claims_new)

---------------------------------------------------------------------------
(* bytes and text *)
JsonText(ms) == [k |-> "json", ms |-> ms]
OtherText(id) == [k |-> "text", id |-> id]
Binary(id) == [k |-> "bin", id |-> id]
EmptyBytes == [k |-> "empty"]
as_bytes(s) == [k |-> "chars", msg |-> s]

(* Header::to_json / Claims::to_json: serde_json::to_string *)
Header_to_json(h) == Ok(JsonText(Header_serialize(h)))
Claims_to_json(c) == Ok(JsonText(Claims_serialize(c)))

(* str::from_utf8 *)
from_utf8(b) == IF b.k \in {"bin", "hmac", "rsa", "digest"} THEN Err("Utf8Error") ELSE Ok(b)

(* serde_json::from_str into a Header / into a Claims *)
Header_from_str(text) ==
  IF text.k = "json" THEN HeaderVisitor_visit_map(text.ms) ELSE Err("syntax")
Claims_from_str(text) ==
  IF text.k = "json" THEN ClaimsVisitor_visit_map(text.ms) ELSE Err("syntax")

---------------------------------------------------------------------------
(* signing.rs, over ideal primitives of the openssl crate *)
hash(hash_type, payload) == [k |-> "digest", id |-> hash_type, dg |-> payload]
hmac(hash_type, key, payload) == [k |-> "hmac", id |-> hash_type, key |-> key, dg |-> payload]
sign_with_hash(key, digest, hash_type) == [k |-> "rsa", id |-> hash_type, key |-> key, dg |-> digest]
(* PKey::verify_with_hash(h, s, hash): s is an RSA signature of the digest h *)
verify_with_hash(key, h, s, hash_type) == s = sign_with_hash(key, h, hash_type)

ValidPem == {"pem"}
private_key_from_pem(secret) == IF secret \in ValidPem THEN Ok(secret) ELSE Err("SslError")

sign(hash_type, key, payload) == Ok(sign_with_hash(key, hash(hash_type, payload), hash_type))
verify(hash_type, key, h, payload) == verify_with_hash(key, h, payload, hash_type)

sign_pk256(key, payload) == sign("SHA256", key, payload)
sign_pk384(key, payload) == sign("SHA384", key, payload)
sign_pk512(key, payload) == sign("SHA512", key, payload)

verify_pk256(key, h, payload) == verify("SHA256", key, h, payload)
verify_pk384(key, h, payload) == verify("SHA256", key, h, payload)
verify_pk512(key, h, payload) == verify("SHA256", key, h, payload)

hmac_256(key, payload) == hmac("SHA256", key, payload)
hmac_384(key, payload) == hmac("SHA384", key, payload)
hmac_512(key, payload) == hmac("SHA512", key, payload)

---------------------------------------------------------------------------
(* jws.rs *)
Dot == [c |-> "dot"]
(* the base64url text of b; the same bytes also have texts that differ in  *)
(* the unused trailing bits of the last character (canon = FALSE)          *)
B64(b, canon) == [c |-> "b64", of |-> b, canon |-> canon]
(* a character outside the base64url alphabet *)
Junk == [c |-> "junk"]

base64_url_encode_bytes(bytes) == IF bytes = EmptyBytes THEN <<>> ELSE <<B64(bytes, TRUE)>>
(* a String is its UTF-8 bytes *)
base64_url_encode(value) == base64_url_encode_bytes(value)

(* FromBase64 for str, on segments of at most one run of characters *)
from_base64(s) ==
  IF s = <<>> THEN Ok(EmptyBytes)
  ELSE IF Len(s) = 1 /\ s[1].c = "b64" THEN Ok(s[1].of)
  ELSE Err("InvalidBase64Byte")

(* format!("{}.{}", a, b) *)
format(a, b) == a \o <<Dot>> \o b

(* str::split('.') *)
RECURSIVE split(_)
split(s) ==
  LET dots == {i \in 1..Len(s) : s[i].c = "dot"}
  IN IF dots = {} THEN <<s>>
     ELSE LET i == CHOOSE d \in dots : \A e \in dots : d <= e
          IN <<SubSeq(s, 1, i - 1)>> \o split(SubSeq(s, i + 1, Len(s)))

from_claims(h, c) == [header |-> h, body |-> [tag |-> "JWT", claims |-> c]]
(* the typ of the Header not copied into the body *)
from_custom_untyped(h, value) == [header |-> h, body |-> [tag |-> "Custom", value |-> value, typ |-> None]]
from_custom(h, value) == [header |-> h, body |-> [tag |-> "Custom", value |-> value, typ |-> h.typ]]

(* outcomes of a call: a returned value, or a panic raised at a source line *)
Return(x) == [panic |-> FALSE, val |-> x]
Panic(line) == [panic |-> TRUE, line |-> line]

(* the HMAC branches compare the decoded signature bytes, not the text *)
verify_signature_decoded(payload, signature, secret, algorithm) ==
  LET key == private_key_from_pem(secret)
      sig == from_base64(signature)
  IN CASE algorithm = "RS256" ->
            IF ~key.ok THEN Panic(98)
            ELSE Return(verify_pk256(key.val, as_bytes(signature), as_bytes(payload)))
       [] algorithm = "RS384" ->
            IF ~key.ok THEN Panic(102)
            ELSE Return(verify_pk384(key.val, as_bytes(signature), as_bytes(payload)))
       [] algorithm = "RS512" ->
            IF ~key.ok THEN Panic(106)
            ELSE Return(verify_pk512(key.val, as_bytes(signature), as_bytes(payload)))
       [] algorithm = "HS256" -> Return(sig.ok /\ sig.val = hmac_256(secret, as_bytes(payload)))
       [] algorithm = "HS384" -> Return(sig.ok /\ sig.val = hmac_384(secret, as_bytes(payload)))
       [] algorithm = "HS512" -> Return(sig.ok /\ sig.val = hmac_512(secret, as_bytes(payload)))
       [] OTHER -> Return(FALSE)

verify_signature(payload, signature, secret, algorithm) ==
  LET key == private_key_from_pem(secret)
  IN CASE algorithm = "RS256" ->
            IF ~key.ok THEN Panic(98)
            ELSE Return(verify_pk256(key.val, as_bytes(signature), as_bytes(payload)))
       [] algorithm = "RS384" ->
            IF ~key.ok THEN Panic(102)
            ELSE Return(verify_pk384(key.val, as_bytes(signature), as_bytes(payload)))
       [] algorithm = "RS512" ->
            IF ~key.ok THEN Panic(106)
            ELSE Return(verify_pk512(key.val, as_bytes(signature), as_bytes(payload)))
       [] algorithm = "HS256" ->
            Return(base64_url_encode_bytes(hmac_256(secret, as_bytes(payload))) = signature)
       [] algorithm = "HS384" ->
            Return(base64_url_encode_bytes(hmac_384(secret, as_bytes(payload))) = signature)
       [] algorithm = "HS512" ->
            Return(base64_url_encode_bytes(hmac_512(secret, as_bytes(payload))) = signature)
       [] OTHER -> Return(FALSE)

(* Option<JWS> returned by decode, or the panic that ended the call *)
SomeJWS(t) == [kind |-> "Some", jws |-> t]
NoJWS == [kind |-> "None"]
Abort(line) == [kind |-> "panic", line |-> line]

(* the body segment decoded before the algorithm and the signature are checked *)
decode_body_first(value, secret, algorithm, decode_claims) ==
  LET parts == split(value)
      h64 == from_base64(parts[1])
  IN IF ~h64.ok THEN Abort(70)
     ELSE LET hutf == from_utf8(h64.val)
     IN IF ~hutf.ok THEN Abort(71)
     ELSE IF Len(parts) < 2 THEN Abort(72)
     ELSE IF Len(parts) < 3 THEN Abort(73)
     ELSE LET payload == format(parts[1], parts[2])
              signature == parts[3]
              hdr == Header_from_str(hutf.val)
     IN IF ~hdr.ok THEN Abort(75)
     ELSE LET body == from_base64(parts[2])
     IN IF ~body.ok THEN Abort(81)
     ELSE IF hdr.val.alg # algorithm THEN NoJWS
     ELSE LET sig == verify_signature(payload, signature, secret, algorithm)
     IN IF sig.panic THEN Abort(sig.line)
     ELSE IF ~sig.val THEN NoJWS
     ELSE IF decode_claims
          THEN LET butf == from_utf8(body.val)
               IN IF ~butf.ok THEN Abort(83)
                  ELSE LET c == Claims_from_str(butf.val)
                       IN IF ~c.ok THEN Abort(84)
                          ELSE SomeJWS(from_claims(hdr.val, c.val))
          ELSE SomeJWS(from_custom(hdr.val, body.val))
decode(value, secret, algorithm, decode_claims) ==
  LET parts == split(value)
      h64 == from_base64(parts[1])
  IN IF ~h64.ok THEN Abort(70)
     ELSE LET hutf == from_utf8(h64.val)
     IN IF ~hutf.ok THEN Abort(71)
     ELSE IF Len(parts) < 2 THEN Abort(72)
     ELSE IF Len(parts) < 3 THEN Abort(73)
     ELSE LET payload == format(parts[1], parts[2])
              signature == parts[3]
              hdr == Header_from_str(hutf.val)
     IN IF ~hdr.ok THEN Abort(75)
     ELSE IF hdr.val.alg # algorithm THEN NoJWS
     ELSE LET sig == verify_signature(payload, signature, secret, algorithm)
     IN IF sig.panic THEN Abort(sig.line)
     ELSE IF ~sig.val THEN NoJWS
     ELSE LET body == from_base64(parts[2])
     IN IF ~body.ok THEN Abort(81)
     ELSE IF decode_claims
          THEN LET butf == from_utf8(body.val)
               IN IF ~butf.ok THEN Abort(83)
                  ELSE LET c == Claims_from_str(butf.val)
                       IN IF ~c.ok THEN Abort(84)
                          ELSE SomeJWS(from_claims(hdr.val, c.val))
          ELSE SomeJWS(from_custom(hdr.val, body.val))

decode_jwt(value, secret, algorithm) == decode(value, secret, algorithm, TRUE)

get_body_bytes(t) ==
  IF t.body.tag = "Custom" THEN Ok(t.body.value) ELSE Claims_to_json(t.body.claims)

(* the declared typ kept for a Claims body *)
get_body_typ_declared(t) ==
  IF t.body.tag = "Custom" THEN t.body.typ ELSE t.header.typ
get_body_typ(t) ==
  IF t.body.tag = "Custom" THEN t.body.typ ELSE Some("JWT")

serialize_payload(t) ==
  LET final_header == [t.header EXCEPT !.typ = get_body_typ(t)]
      header_json == Header_to_json(final_header).val
      claims_json == get_body_bytes(t).val
  IN format(base64_url_encode(header_json), base64_url_encode_bytes(claims_json))

(* the match on alg inside encode *)
encode_signature(payload, secret, alg) ==
  LET key == private_key_from_pem(secret)
  IN    CASE alg = "RS256" -> IF ~key.ok THEN Panic(142) ELSE Return(sign_pk256(key.val, as_bytes(payload)).val)
          [] alg = "RS384" -> IF ~key.ok THEN Panic(146) ELSE Return(sign_pk384(key.val, as_bytes(payload)).val)
          [] alg = "RS512" -> IF ~key.ok THEN Panic(150) ELSE Return(sign_pk512(key.val, as_bytes(payload)).val)
          [] alg = "HS256" -> Return(hmac_256(secret, as_bytes(payload)))
          [] alg = "HS384" -> Return(hmac_384(secret, as_bytes(payload)))
          [] alg = "HS512" -> Return(hmac_512(secret, as_bytes(payload)))
          [] OTHER -> Return(hmac_256(secret, as_bytes(payload)))

encode(t, secret, alg) ==
  LET payload == serialize_payload(t)
      signature == encode_signature(payload, secret, alg)
  IN IF signature.panic THEN signature
     ELSE Return(format(payload, base64_url_encode_bytes(signature.val)))

---------------------------------------------------------------------------
(* inputs *)
Keys == {"secret", "pem"}
Values == {Str("Something"), Num("98"), Obj("nested")}
SetKeys == {"ISS", "RAT", "iss", "typ", "exp"}

HeaderFieldValues ==
  [typ |-> {"JWT", "x"}, jku |-> {"WHERE"}, kid |-> {"KEY"}, x5u |-> {"X5U"}, x5t |-> {"X5T"}]
ClaimsFieldValues ==
  [iss |-> {"svc-a"}, sub |-> {"KEY"}, aud |-> {"X5U"}, exp |-> {"2000000000"},
   nbf |-> {"3000"}, iat |-> {"45000"}, jti |-> {"DKDK"}]

HeaderDocs ==
  { <<Member("alg", Str("HS384"))>>,
    <<Member("alg", Str("none"))>>,
    <<Member("alg", Num("1"))>>,
    <<Member("typ", Str("JWT"))>>,
    <<Member("alg", Str("RS256")), Member("alg", Str("ES512"))>>,
    <<Member("kid", Num("7")), Member("alg", Str("HS256"))>>,
    <<Member("typ", Str("JWT")), Member("alg", Str("HS512")), Member("iss", Str("DISPOSITION")),
      Member("RAT", Num("98"))>> }
ClaimsDocs ==
  { <<>>,
    <<Member("iss", Str("svc-a")), Member("exp", Num("2000000000"))>>,
    <<Member("exp", Str("soon"))>>,
    <<Member("iss", Num("5"))>>,
    <<Member("typ", Str("JWT")), Member("RAT", Obj("nested")), Member("RAT", Num("98"))>>,
    <<Member("jti", Str("a")), Member("jti", Str("DKDK")), Member("alg", Str("HS256"))>> }

NotCalled == [done |-> FALSE]
NoOp == [op |-> "none"]

---------------------------------------------------------------------------
(* the field model: a Header and a Claims built by field assignment, set   *)
(* calls and JSON deserialization                                          *)
FieldInit ==
  /\ header = Header_new
  /\ claims = Claims_new
  /\ ops = 0
  /\ last = NoOp
  /\ jws = [built |-> FALSE]
  /\ encoded = NotCalled
  /\ wire = <<>>
  /\ tamper = NoOp
  /\ decoded = NotCalled

(* h.alg = a *)
HeaderAssignAlg ==
  /\ ops < MaxOps
  /\ \E a \in ALGORITHM :
       /\ header' = [header EXCEPT !.alg = a]
       /\ last' = [op |-> "Header.alg", alg |-> a]
  /\ ops' = ops + 1
  /\ UNCHANGED <<claims, jws, encoded, wire, tamper, decoded>>

(* h.typ = Some(..), h.kid = Some(..), ... *)
HeaderAssign ==
  /\ ops < MaxOps
  /\ \E f \in DOMAIN HeaderFieldValues : \E s \in HeaderFieldValues[f] :
       /\ header' = [header EXCEPT ![f] = Some(s)]
       /\ last' = [op |-> "Header.field", key |-> f, value |-> s]
  /\ ops' = ops + 1
  /\ UNCHANGED <<claims, jws, encoded, wire, tamper, decoded>>

(* h.set(key, value), followed by h.get::<T>(key) *)
HeaderSet ==
  /\ ops < MaxOps
  /\ \E key \in SetKeys : \E value \in Values : \E T \in {"str", "num"} :
       /\ header' = Header_set(header, key, value)
       /\ last' = [op |-> "Header_set", key |-> key, value |-> value, T |-> T,
                   hbefore |-> header, got |-> Header_get(Header_set(header, key, value), key, T)]
  /\ ops' = ops + 1
  /\ UNCHANGED <<claims, jws, encoded, wire, tamper, decoded>>

(* h = serde_json::from_str(doc)?  *)
HeaderFromStr ==
  /\ ops < MaxOps
  /\ \E doc \in HeaderDocs :
       LET r == Header_from_str(JsonText(doc))
       IN /\ header' = IF r.ok THEN r.val ELSE header
          /\ last' = [op |-> "Header_from_str", doc |-> doc, hres |-> r]
  /\ ops' = ops + 1
  /\ UNCHANGED <<claims, jws, encoded, wire, tamper, decoded>>

(* c.iss = Some(..), c.exp = Some(..), ... *)
ClaimsAssign ==
  /\ ops < MaxOps
  /\ \E f \in DOMAIN ClaimsFieldValues : \E s \in ClaimsFieldValues[f] :
       /\ claims' = [claims EXCEPT ![f] = Some(s)]
       /\ last' = [op |-> "Claims.field", key |-> f, value |-> s]
  /\ ops' = ops + 1
  /\ UNCHANGED <<header, jws, encoded, wire, tamper, decoded>>

(* c.set(key, value), followed by c.get::<T>(key) *)
ClaimsSet ==
  /\ ops < MaxOps
  /\ \E key \in SetKeys : \E value \in Values : \E T \in {"str", "num"} :
       /\ claims' = Claims_set(claims, key, value)
       /\ last' = [op |-> "Claims_set", key |-> key, value |-> value, T |-> T,
                   cbefore |-> claims, got |-> Claims_get(Claims_set(claims, key, value), key, T)]
  /\ ops' = ops + 1
  /\ UNCHANGED <<header, jws, encoded, wire, tamper, decoded>>

(* c = serde_json::from_str(doc)?  *)
ClaimsFromStr ==
  /\ ops < MaxOps
  /\ \E doc \in ClaimsDocs :
       LET r == Claims_from_str(JsonText(doc))
       IN /\ claims' = IF r.ok THEN r.val ELSE claims
          /\ last' = [op |-> "Claims_from_str", doc |-> doc, cres |-> r]
  /\ ops' = ops + 1
  /\ UNCHANGED <<header, jws, encoded, wire, tamper, decoded>>

(* let json = serde_json::to_string(&h); h = serde_json::from_str(&json)? *)
HeaderRoundTrip ==
  /\ LET json == Header_to_json(header).val
         r == Header_from_str(json)
     IN /\ header' = IF r.ok THEN r.val ELSE header
        /\ last' = [op |-> "Header_round_trip", hbefore |-> header, json |-> json.ms, hres |-> r]
  /\ UNCHANGED <<claims, ops, jws, encoded, wire, tamper, decoded>>

(* let json = serde_json::to_string(&c); c = serde_json::from_str(&json)? *)
ClaimsRoundTrip ==
  /\ LET json == Claims_to_json(claims).val
         r == Claims_from_str(json)
     IN /\ claims' = IF r.ok THEN r.val ELSE claims
        /\ last' = [op |-> "Claims_round_trip", cbefore |-> claims, json |-> json.ms, cres |-> r]
  /\ UNCHANGED <<header, ops, jws, encoded, wire, tamper, decoded>>

FieldNext ==
  \/ HeaderAssignAlg
  \/ HeaderAssign
  \/ HeaderSet
  \/ HeaderFromStr
  \/ ClaimsAssign
  \/ ClaimsSet
  \/ ClaimsFromStr
  \/ HeaderRoundTrip
  \/ ClaimsRoundTrip

FieldSpec == FieldInit /\ [][FieldNext]_vars

---------------------------------------------------------------------------
(* the codec: a Token is built from a Header and a body, encoded once,     *)
(* and the string is decoded                                               *)
PopulatedHeader(h) ==
  Cardinality({f \in DOMAIN HeaderFieldValues : h[f].some}) + Cardinality(DOMAIN h.values)
PopulatedClaims(c) ==
  Cardinality({f \in DOMAIN ClaimsFieldValues : c[f].some}) + Cardinality(DOMAIN c.claims)

(* the fields and extension entries an input Token may have populated *)
InputHeaderFields == {"typ", "kid"}
InputClaimsFields == {"iss", "exp"}
InputHeaderKeys == {"iss"}
InputClaimsKeys == {"RAT"}
InputValues == {Str("Something"), Num("98")}

RECURSIVE HeaderInputs(_)
HeaderInputs(n) ==
  IF n = 0 THEN {Header_new}
  ELSE LET P == HeaderInputs(n - 1)
       IN P \cup {[h EXCEPT ![f] = Some(CHOOSE s \in HeaderFieldValues[f] : s # "JWT")] :
                    h \in P, f \in InputHeaderFields}
            \cup {Header_set(h, key, value) : h \in P, key \in InputHeaderKeys, value \in InputValues}

RECURSIVE ClaimsInputs(_)
ClaimsInputs(n) ==
  IF n = 0 THEN {Claims_new}
  ELSE LET P == ClaimsInputs(n - 1)
       IN P \cup {[c EXCEPT ![f] = Some(CHOOSE s \in ClaimsFieldValues[f] : TRUE)] :
                    c \in P, f \in InputClaimsFields}
            \cup {Claims_set(c, key, value) : c \in P, key \in InputClaimsKeys, value \in InputValues}

CustomBodies == {Binary("\\xff\\xfe"), OtherText("hello"), EmptyBytes}

TokenInputs(n) ==
  LET hs == {h \in HeaderInputs(n) : PopulatedHeader(h) <= n}
      cs == {c \in ClaimsInputs(n) : PopulatedClaims(c) <= n}
      pairs == {p \in hs \X cs : PopulatedHeader(p[1]) + PopulatedClaims(p[2]) <= n}
  IN {from_claims([p[1] EXCEPT !.alg = a], p[2]) : a \in ALGORITHM, p \in pairs}
     \cup {from_custom([h EXCEPT !.alg = a], b) : a \in ALGORITHM, h \in hs, b \in CustomBodies}

Built(t) == [built |-> TRUE, header |-> t.header, body |-> t.body]

Init ==
  /\ header = Header_new
  /\ claims = Claims_new
  /\ ops = 0
  /\ last = NoOp
  /\ jws \in {Built(t) : t \in TokenInputs(MaxFields)}
  /\ encoded = NotCalled
  /\ wire = <<>>
  /\ tamper = NoOp
  /\ decoded = NotCalled

(* let s = jws.encode(secret, alg) *)
Encode ==
  /\ jws.built
  /\ ~encoded.done
  /\ \E secret \in Keys : \E alg \in ALGORITHM :
       LET r == encode(jws, secret, alg)
       IN /\ encoded' = [done |-> TRUE, key |-> secret, alg |-> alg, token |-> jws, res |-> r]
          /\ wire' = IF r.panic THEN wire ELSE r.val
  /\ UNCHANGED <<header, claims, ops, last, jws, tamper, decoded>>

(* JWS::decode(wire, secret, algorithm, decode_claims) *)
Decode ==
  /\ encoded.done
  /\ ~encoded.res.panic
  /\ ~decoded.done
  /\ \E secret \in Keys : \E algorithm \in ALGORITHM : \E decode_claims \in BOOLEAN :
       decoded' = [done |-> TRUE, value |-> wire, key |-> secret, alg |-> algorithm,
                   decode_claims |-> decode_claims,
                   res |-> decode(wire, secret, algorithm, decode_claims)]
  /\ UNCHANGED <<header, claims, ops, last, jws, encoded, wire, tamper>>

Next ==
  \/ Encode
  \/ Decode

Spec == Init /\ [][Next]_vars

---------------------------------------------------------------------------
(* the codec with a hostile channel: the string produced by encode is      *)
(* replaced by a string made from its segments before it is decoded        *)
ForgedHeaders ==
  { base64_url_encode(JsonText(<<Member("typ", Str("JWT"))>>)),
    base64_url_encode(JsonText(<<Member("alg", Str("none"))>>)),
    base64_url_encode(OtherText("hello")),
    base64_url_encode_bytes(Binary("\\xff\\xfe")),
    <<Junk>> }
ForgedBodies ==
  { base64_url_encode(JsonText(<<Member("exp", Str("soon"))>>)),
    base64_url_encode_bytes(Binary("\\xff\\xfe")),
    <<Junk>> }

(* header.body, signed again as encode signs when resign is set *)
Forge(h64, b64, sig64, resign) ==
  LET payload == format(h64, b64)
  IN IF resign
     THEN format(payload, base64_url_encode_bytes(encode_signature(payload, encoded.key, encoded.alg).val))
     ELSE format(payload, sig64)

AttackInit ==
  /\ header = Header_new
  /\ claims = Claims_new
  /\ ops = 0
  /\ last = NoOp
  /\ jws \in {Built(t) : t \in TokenInputs(0)}
  /\ encoded = NotCalled
  /\ wire = <<>>
  /\ tamper = NoOp
  /\ decoded = NotCalled

CanTamper ==
  /\ encoded.done
  /\ ~encoded.res.panic
  /\ tamper = NoOp
  /\ ~decoded.done

(* the last character of the signature changed in its unused bits *)
TamperFlipSignature ==
  /\ CanTamper
  /\ LET parts == split(wire)
     IN wire' = format(format(parts[1], parts[2]), <<B64(from_base64(parts[3]).val, FALSE)>>)
  /\ tamper' = [op |-> "flip_signature"]
  /\ UNCHANGED <<header, claims, ops, last, jws, encoded, decoded>>

(* the signature replaced by a character outside the alphabet *)
TamperJunkSignature ==
  /\ CanTamper
  /\ LET parts == split(wire)
     IN wire' = format(format(parts[1], parts[2]), <<Junk>>)
  /\ tamper' = [op |-> "junk_signature"]
  /\ UNCHANGED <<header, claims, ops, last, jws, encoded, decoded>>

(* segments removed from the end *)
TamperTruncate ==
  /\ CanTamper
  /\ \E n \in {1, 2} :
       LET parts == split(wire)
       IN /\ wire' = IF n = 1 THEN parts[1] ELSE format(parts[1], parts[2])
          /\ tamper' = [op |-> "truncate", n |-> n]
  /\ UNCHANGED <<header, claims, ops, last, jws, encoded, decoded>>

(* a fourth segment added *)
TamperAppend ==
  /\ CanTamper
  /\ wire' = format(wire, <<Junk>>)
  /\ tamper' = [op |-> "append"]
  /\ UNCHANGED <<header, claims, ops, last, jws, encoded, decoded>>

(* the header segment replaced *)
TamperHeader ==
  /\ CanTamper
  /\ \E h64 \in ForgedHeaders : \E resign \in BOOLEAN :
       LET parts == split(wire)
       IN /\ wire' = Forge(h64, parts[2], parts[3], resign)
          /\ tamper' = [op |-> "header", seg |-> h64, resign |-> resign]
  /\ UNCHANGED <<header, claims, ops, last, jws, encoded, decoded>>

(* the body segment replaced *)
TamperBody ==
  /\ CanTamper
  /\ \E b64 \in ForgedBodies : \E resign \in BOOLEAN :
       LET parts == split(wire)
       IN /\ wire' = Forge(parts[1], b64, parts[3], resign)
          /\ tamper' = [op |-> "body", seg |-> b64, resign |-> resign]
  /\ UNCHANGED <<header, claims, ops, last, jws, encoded, decoded>>

AttackNext ==
  \/ Encode
  \/ TamperFlipSignature
  \/ TamperJunkSignature
  \/ TamperTruncate
  \/ TamperAppend
  \/ TamperHeader
  \/ TamperBody
  \/ Decode

AttackSpec == AttackInit /\ [][AttackNext]_vars

---------------------------------------------------------------------------
(* properties *)

(* C1: HMAC round trip.  For alg in {HS256, HS384, HS512}, a Header whose  *)
(* alg is alg, any Claims and any key, decoding with the same key and alg  *)
(* and decode_claims = true the string that encode returned gives a Token  *)
(* whose Claims equal the original ones and whose Header equals the        *)
(* original one except that typ is "JWT".                                  *)
C1_HmacRoundTrip ==
  ( /\ decoded.done
    /\ jws.body.tag = "JWT"
    /\ encoded.alg \in {"HS256", "HS384", "HS512"}
    /\ jws.header.alg = encoded.alg
    /\ decoded.value = encoded.res.val
    /\ decoded.key = encoded.key
    /\ decoded.alg = encoded.alg
    /\ decoded.decode_claims )
  => /\ decoded.res.kind = "Some"
     /\ decoded.res.jws.body = [tag |-> "JWT", claims |-> jws.body.claims]
     /\ decoded.res.jws.header = [jws.header EXCEPT !.typ = Some("JWT")]

C1_Witness ==
  /\ decoded.done
  /\ jws.body.tag = "JWT"
  /\ encoded.alg = "HS384"
  /\ jws.header.alg = "HS384"
  /\ decoded.key = encoded.key
  /\ decoded.alg = "HS384"
  /\ decoded.decode_claims
  /\ jws.body.claims.exp.some
  /\ decoded.res.kind = "Some"
  /\ decoded.res.jws.body.claims.exp = Some("2000000000")

(* C2: RSA round trip.  For alg in {RS256, RS384, RS512}, a Header whose   *)
(* alg is alg, any Claims and a valid PEM key, decoding with the same key  *)
(* and alg the string that encode returned succeeds and gives back the     *)
(* original Claims.                                                        *)
C2_RsaRoundTrip ==
  ( /\ decoded.done
    /\ jws.body.tag = "JWT"
    /\ encoded.alg \in {"RS256", "RS384", "RS512"}
    /\ jws.header.alg = encoded.alg
    /\ encoded.key \in ValidPem
    /\ decoded.value = encoded.res.val
    /\ decoded.key = encoded.key
    /\ decoded.alg = encoded.alg
    /\ decoded.decode_claims )
  => /\ decoded.res.kind = "Some"
     /\ decoded.res.jws.body = [tag |-> "JWT", claims |-> jws.body.claims]

(* C3: a valid signature is necessary.  With an HS* algorithm decode       *)
(* returns a Token only if the third segment of its input is exactly the   *)
(* base64url text of the HMAC, under the key given to decode, of           *)
(* segment0 "." segment1; so a valid token whose signature segment was      *)
(* changed, or that is decoded with another key, gives None.               *)
C3_SignatureNecessary ==
  decoded.done =>
    LET parts == split(decoded.value)
        width == CASE decoded.alg = "HS256" -> "SHA256"
                   [] decoded.alg = "HS384" -> "SHA384"
                   [] decoded.alg = "HS512" -> "SHA512"
                   [] OTHER -> "none"
        valid == /\ encoded.alg \in {"HS256", "HS384", "HS512"}
                 /\ jws.header.alg = encoded.alg
    IN /\ (width # "none" /\ decoded.res.kind = "Some")
            => /\ Len(parts) >= 3
               /\ parts[3] = <<B64(hmac(width, decoded.key, as_bytes(parts[1] \o <<Dot>> \o parts[2])), TRUE)>>
       /\ (valid /\ tamper.op \in {"flip_signature", "junk_signature"})
            => decoded.res.kind = "None"
       /\ (valid /\ tamper.op = "none" /\ decoded.key # encoded.key)
            => decoded.res.kind = "None"

C3_Witness ==
  /\ decoded.done
  /\ tamper.op = "flip_signature"
  /\ encoded.alg = "HS512"
  /\ jws.header.alg = "HS512"
  /\ decoded.alg = "HS512"
  /\ decoded.key = encoded.key
  /\ from_base64(split(decoded.value)[3]) = from_base64(split(encoded.res.val)[3])
  /\ decoded.res.kind = "None"

(* C4: algorithm-confusion guard.  Whenever the alg that the header of a   *)
(* three-segment input declares differs from the algorithm the caller      *)
(* expects, decode gives None, whatever the key and the signature are.     *)
C4_AlgorithmGuard ==
  (decoded.done /\ Len(split(decoded.value)) = 3) =>
    LET h64 == from_base64(split(decoded.value)[1])
        declared == IF h64.ok /\ h64.val.k = "json"
                    THEN SelectSeq(h64.val.ms, LAMBDA m : m.n = "alg")
                    ELSE <<>>
    IN (declared # <<>> /\ declared[Len(declared)].v # Str(decoded.alg))
         => decoded.res.kind = "None"

(* C5: decode returns a Token only for a string that splits on '.' into    *)
(* exactly three segments, also when the first three segments of a longer  *)
(* string are a validly signed token.                                      *)
C5_ExactlyThreeSegments ==
  (decoded.done /\ decoded.res.kind = "Some") => Len(split(decoded.value)) = 3

(* C6: decode always returns, a Token or a failure value; no input makes   *)
(* it panic.                                                               *)
C6_DecodeNeverPanics ==
  decoded.done => decoded.res.kind # "panic"

(* C7: encode with ES256, ES384 or ES512 fails and returns no string.      *)
C7_SignFailsClosed ==
  (encoded.done /\ encoded.alg \in {"ES256", "ES384", "ES512"}) => encoded.res.panic

(* C8: no reserved name is ever a key of the extension map of a Header or  *)
(* of a Claims; set with a reserved name leaves the value as it was and    *)
(* get with a reserved name is absent.                                     *)
C8_ReservedNeverInExtensions ==
  /\ \A i \in 1..Len(RESERVED_HEADERS) :
       /\ RESERVED_HEADERS[i] \notin DOMAIN header.values
       /\ \A T \in {"str", "num"} : ~Header_get(header, RESERVED_HEADERS[i], T).some
  /\ \A i \in 1..Len(RESERVED_CLAIMS) :
       /\ RESERVED_CLAIMS[i] \notin DOMAIN claims.claims
       /\ \A T \in {"str", "num"} : ~Claims_get(claims, RESERVED_CLAIMS[i], T).some
  /\ (last.op = "Header_set" /\ Contains(RESERVED_HEADERS, last.key))
       => (header = last.hbefore /\ ~last.got.some)
  /\ (last.op = "Claims_set" /\ Contains(RESERVED_CLAIMS, last.key))
       => (claims = last.cbefore /\ ~last.got.some)

C8_Witness ==
  /\ last.op = "Claims_set"
  /\ last.key = "iss"
  /\ claims.iss = Some("svc-a")

(* C9: parsing a header object gives a Header only when the object has an  *)
(* alg member naming one of the nine algorithms, and the Header's alg is   *)
(* then that algorithm.                                                    *)
C9_AlgNeverDefaulted ==
  (last.op = "Header_from_str" /\ last.hres.ok) =>
    LET algs == SelectSeq(last.doc, LAMBDA m : m.n = "alg")
    IN /\ algs # <<>>
       /\ algs[Len(algs)].v.t = "str"
       /\ algs[Len(algs)].v.v \in ALGORITHM
       /\ last.hres.val.alg = algs[Len(algs)].v.v

(* C10: in the header segment that encode writes, typ is "JWT" when the    *)
(* body is Claims, whatever typ the Header has, and is the typ of the      *)
(* Header (possibly absent) when the body is opaque bytes; the Token given *)
(* to encode is unchanged.                                                 *)
C10_TypOverride ==
  (encoded.done /\ ~encoded.res.panic) =>
    LET h64 == from_base64(split(encoded.res.val)[1])
        typs == SelectSeq(h64.val.ms, LAMBDA m : m.n = "typ")
    IN /\ h64.ok
       /\ h64.val.k = "json"
       /\ jws.body.tag = "JWT" => typs = <<Member("typ", Str("JWT"))>>
       /\ (jws.body.tag = "Custom" /\ jws.header.typ.some)
            => typs = <<Member("typ", Str(jws.header.typ.v))>>
       /\ (jws.body.tag = "Custom" /\ ~jws.header.typ.some) => typs = <<>>
       /\ jws = encoded.token

C10_Witness ==
  /\ encoded.done
  /\ ~encoded.res.panic
  /\ jws.body.tag = "JWT"
  /\ jws.header.typ = Some("x")
  /\ encoded.token.header.typ = Some("x")

(* C11: JSON round trip of the field model.  Parsing the JSON written for  *)
(* a Header or a Claims gives back an equal value: the same reserved       *)
(* fields and, under get, the same extension fields with the same values   *)
(* and types.  A member with an unknown name is always accepted and        *)
(* becomes an extension field; only a reserved member can fail a parse.    *)
C11_JsonRoundTrip ==
  /\ last.op = "Header_round_trip" =>
       /\ last.hres.ok
       /\ last.hres.val = last.hbefore
       /\ \A key \in DOMAIN last.hbefore.values : \A T \in {"str", "num", "obj"} :
            Header_get(last.hres.val, key, T) = Header_get(last.hbefore, key, T)
  /\ last.op = "Claims_round_trip" =>
       /\ last.cres.ok
       /\ last.cres.val = last.cbefore
       /\ \A key \in DOMAIN last.cbefore.claims : \A T \in {"str", "num", "obj"} :
            Claims_get(last.cres.val, key, T) = Claims_get(last.cbefore, key, T)
  /\ last.op = "Header_from_str" =>
       /\ last.hres.ok <=>
            /\ \E i \in 1..Len(last.doc) : last.doc[i].n = "alg"
            /\ \A i \in 1..Len(last.doc) :
                 Contains(RESERVED_HEADERS, last.doc[i].n) => last.doc[i].v.t = "str"
       /\ last.hres.ok =>
            \A i \in 1..Len(last.doc) :
              ~Contains(RESERVED_HEADERS, last.doc[i].n) => last.doc[i].n \in DOMAIN last.hres.val.values
  /\ last.op = "Claims_from_str" =>
       /\ last.cres.ok <=>
            \A i \in 1..Len(last.doc) :
              /\ last.doc[i].n \in {"iss", "sub", "aud", "jti"} => last.doc[i].v.t = "str"
              /\ last.doc[i].n \in {"exp", "nbf", "iat"} => last.doc[i].v.t = "num"
       /\ last.cres.ok =>
            \A i \in 1..Len(last.doc) :
              ~Contains(RESERVED_CLAIMS, last.doc[i].n) => last.doc[i].n \in DOMAIN last.cres.val.claims

C11_Witness ==
  /\ last.op = "Claims_round_trip"
  /\ last.cbefore.exp.some
  /\ "RAT" \in DOMAIN last.cbefore.claims
  /\ last.cres.ok
  /\ Claims_get(last.cres.val, "RAT", "num") = Some("98")

(* C12: opaque-body round trip.  For an HS* algorithm alg, a Header whose  *)
(* alg is alg, any bytes b and any key, decoding with the same key and alg *)
(* and decode_claims = false the string that encode returned for           *)
(* from_custom(h, b) gives a Token whose body is the opaque variant with   *)
(* exactly the bytes b and whose declared type is the typ of h, which is   *)
(* also the typ of the returned Header.                                    *)
C12_OpaqueRoundTrip ==
  ( /\ decoded.done
    /\ jws.body.tag = "Custom"
    /\ encoded.alg \in {"HS256", "HS384", "HS512"}
    /\ jws.header.alg = encoded.alg
    /\ decoded.value = encoded.res.val
    /\ decoded.key = encoded.key
    /\ decoded.alg = encoded.alg
    /\ ~decoded.decode_claims )
  => /\ decoded.res.kind = "Some"
     /\ decoded.res.jws.body.tag = "Custom"
     /\ decoded.res.jws.body.value = jws.body.value
     /\ decoded.res.jws.body.typ = jws.header.typ
     /\ decoded.res.jws.header.typ = jws.header.typ
     /\ decoded.res.jws.header = jws.header

C12_Witness ==
  /\ decoded.done
  /\ jws.body.tag = "Custom"
  /\ jws.body.value = OtherText("hello")
  /\ jws.header.typ = Some("x")
  /\ encoded.alg = "HS256"
  /\ jws.header.alg = "HS256"
  /\ decoded.key = encoded.key
  /\ decoded.alg = "HS256"
  /\ ~decoded.decode_claims
  /\ decoded.res.kind = "Some"
  /\ decoded.res.jws.body.value = OtherText("hello")
  /\ decoded.res.jws.body.typ = Some("x")

(* C13: decode works in the order header, algorithm and signature, body.   *)
(* The body segment is base64url-decoded and parsed only after the         *)
(* algorithm of the header was found equal to the expected one and the     *)
(* signature was verified: every outcome of the body stage, a Token or a   *)
(* failure of the body's base64, UTF-8 or JSON decoding, comes from an     *)
(* input whose header and signature passed.  An input of three segments    *)
(* or more whose header parses and whose algorithm or signature is wrong   *)
(* gives None whether its body segment is well formed or not; so does a    *)
(* valid HS* token whose body segment was replaced by another one, and an  *)
(* outcome other than a Token carries no body.                             *)
C13_VerifyBeforeBody ==
  decoded.done =>
    LET parts == split(decoded.value)
        h64 == from_base64(parts[1])
        hutf == IF h64.ok THEN from_utf8(h64.val) ELSE Err("base64")
        hdr == IF hutf.ok THEN Header_from_str(hutf.val) ELSE Err("utf8")
        v == verify_signature(format(parts[1], parts[2]), parts[3], decoded.key, decoded.alg)
        width == CASE decoded.alg = "HS256" -> "SHA256"
                   [] decoded.alg = "HS384" -> "SHA384"
                   [] decoded.alg = "HS512" -> "SHA512"
                   [] OTHER -> "none"
        bodyStage == \/ decoded.res.kind = "Some"
                     \/ decoded.res.kind = "panic" /\ decoded.res.line \in {81, 83, 84}
        valid == /\ encoded.alg \in {"HS256", "HS384", "HS512"}
                 /\ jws.header.alg = encoded.alg
    IN /\ bodyStage
            => /\ Len(parts) >= 3
               /\ hdr.ok
               /\ hdr.val.alg = decoded.alg
               /\ ~v.panic
               /\ v.val
               /\ width # "none"
                    => parts[3] = <<B64(hmac(width, decoded.key, as_bytes(parts[1] \o <<Dot>> \o parts[2])), TRUE)>>
       /\ (Len(parts) >= 3 /\ hdr.ok /\ hdr.val.alg # decoded.alg)
            => decoded.res.kind = "None"
       /\ (Len(parts) >= 3 /\ hdr.ok /\ hdr.val.alg = decoded.alg /\ ~v.panic /\ ~v.val)
            => decoded.res.kind = "None"
       /\ (valid /\ tamper.op = "body" /\ ~tamper.resign /\ tamper.seg # split(encoded.res.val)[2])
            => decoded.res.kind = "None"
       /\ decoded.res.kind # "Some" => "jws" \notin DOMAIN decoded.res

C13_Witness ==
  /\ decoded.done
  /\ tamper.op = "body"
  /\ tamper.seg = <<Junk>>
  /\ ~tamper.resign
  /\ encoded.alg = "HS256"
  /\ jws.header.alg = "HS256"
  /\ decoded.alg = "HS256"
  /\ decoded.key = encoded.key
  /\ ~from_base64(split(decoded.value)[2]).ok
  /\ decoded.res.kind = "None"

(* C14: canonical serialization order.  The JSON of a Header lists alg,    *)
(* then typ, jku, kid, x5u, x5t, each only if set and with its value; the  *)
(* JSON of a Claims lists iss, sub, aud, exp, nbf, iat, jti, each only if  *)
(* set and with its value; both then list the extension fields, each once, *)
(* in ascending key order.  So the text is a function of the contents, and *)
(* two set calls with different keys, made on the value that was written,  *)
(* give the same text in either order.                                     *)
C14_CanonicalOrder ==
  LET Pos(seq, x) == CHOOSE i \in 1..Len(seq) : seq[i] = x
      Ordered(js, order) ==
        /\ \A i \in 1..Len(js) : Contains(order, js[i].n)
        /\ \A i \in 1..Len(js) : \A j \in 1..Len(js) :
             i < j => Pos(order, js[i].n) < Pos(order, js[j].n)
      Has(js, m) == \E i \in 1..Len(js) : js[i] = m
      Names(js) == {js[i].n : i \in 1..Len(js)}
      KeyPairs == {<<"ISS", "RAT">>, <<"RAT", "iss">>, <<"typ", "ISS">>}
      HeaderOrder == <<"alg", "typ", "jku", "kid", "x5u", "x5t",
                       "ISS", "RAT", "aud", "exp", "iat", "iss", "jti", "nbf", "sub">>
      ClaimsOrder == <<"iss", "sub", "aud", "exp", "nbf", "iat", "jti",
                       "ISS", "RAT", "alg", "jku", "kid", "typ", "x5t", "x5u">>
  IN /\ last.op = "Header_round_trip" =>
          LET js == last.json
              h == last.hbefore
          IN /\ Ordered(js, HeaderOrder)
             /\ Has(js, Member("alg", Str(h.alg)))
             /\ \A f \in {"typ", "jku", "kid", "x5u", "x5t"} :
                  IF h[f].some THEN Has(js, Member(f, Str(h[f].v))) ELSE f \notin Names(js)
             /\ \A n \in Names(js) \ {"alg", "typ", "jku", "kid", "x5u", "x5t"} :
                  n \in DOMAIN h.values /\ Has(js, Member(n, h.values[n]))
             /\ \A n \in DOMAIN h.values : n \in Names(js)
             /\ \A k \in KeyPairs : \A v1 \in Values : \A v2 \in Values \ {v1} :
                  Header_to_json(Header_set(Header_set(h, k[1], v1), k[2], v2))
                    = Header_to_json(Header_set(Header_set(h, k[2], v2), k[1], v1))
     /\ last.op = "Claims_round_trip" =>
          LET js == last.json
              c == last.cbefore
          IN /\ Ordered(js, ClaimsOrder)
             /\ \A f \in {"iss", "sub", "aud", "jti"} :
                  IF c[f].some THEN Has(js, Member(f, Str(c[f].v))) ELSE f \notin Names(js)
             /\ \A f \in {"exp", "nbf", "iat"} :
                  IF c[f].some THEN Has(js, Member(f, Num(c[f].v))) ELSE f \notin Names(js)
             /\ \A n \in Names(js) \ {"iss", "sub", "aud", "exp", "nbf", "iat", "jti"} :
                  n \in DOMAIN c.claims /\ Has(js, Member(n, c.claims[n]))
             /\ \A n \in DOMAIN c.claims : n \in Names(js)
             /\ \A k \in KeyPairs : \A v1 \in Values : \A v2 \in Values \ {v1} :
                  Claims_to_json(Claims_set(Claims_set(c, k[1], v1), k[2], v2))
                    = Claims_to_json(Claims_set(Claims_set(c, k[2], v2), k[1], v1))

C14_Witness ==
  /\ last.op = "Claims_round_trip"
  /\ last.cbefore.iss.some
  /\ "RAT" \in DOMAIN last.cbefore.claims
  /\ Len(last.json) = 2
  /\ last.json[1].n = "iss"
  /\ last.json[2].n = "RAT"

(* C15: header and signature agree in what encode returns.  For every      *)
(* Token and every HS* algorithm passed to encode, the alg written in the  *)
(* header segment of the returned string is the algorithm whose HMAC is in *)
(* the signature segment, and decode with the same key and that declared   *)
(* algorithm accepts the string.                                           *)
C15_HeaderNamesSigner ==
  (encoded.done /\ ~encoded.res.panic /\ encoded.alg \in {"HS256", "HS384", "HS512"}) =>
    LET parts == split(encoded.res.val)
        declared == Header_from_str(from_utf8(from_base64(parts[1]).val).val).val.alg
        sig == from_base64(parts[3]).val
        signer == CASE sig.k = "hmac" /\ sig.id = "SHA256" -> "HS256"
                    [] sig.k = "hmac" /\ sig.id = "SHA384" -> "HS384"
                    [] sig.k = "hmac" /\ sig.id = "SHA512" -> "HS512"
                    [] OTHER -> "other"
    IN /\ declared = signer
       /\ decode(encoded.res.val, encoded.key, declared, FALSE).kind = "Some"

====
